---- MODULE Spec2Model ----
(***************************************************************************)
(* A model of the useForm hook (form-hooks).                               *)
(*                                                                         *)
(* The hook keeps five React state cells (errors, values, touched,         *)
(* isSubmitting, submitCount) and one ref (initialRender).  Every          *)
(* activation (render) of the owning component calls useForm again and     *)
(* builds fresh handler closures over the state of that activation; the    *)
(* handlers read the activation's snapshot and write the cells through the *)
(* setters.  React applies the writes at the next activation: handlers     *)
(* that run in the same synchronous batch all read the same snapshot.      *)
(* Promise continuations (the tails of handleSubmit and handleValidate)    *)
(* run outside any batch, from a flushed state, and each of their writes   *)
(* is followed at once by an activation.  So is each setter call of a      *)
(* handler that the component calls outside a batch (from a timer, say):   *)
(* the call goes on in its closure while the component is activated on     *)
(* the cells written so far.                                               *)
(***************************************************************************)
EXTENDS Integers, Sequences, FiniteSets, Bags, TLC

(***************************************************************************)
(* Bounds of the model.                                                    *)
(***************************************************************************)
\* handler calls in one synchronous batch (no activation in between)
MaxBatch == 2
\* promise chains (validations, submit attempts) in flight at once
MaxInFlight == 2
\* handler calls in one run of the model
MaxCalls == 3
\* handleChange calls in one run of the specification of the value extraction
MaxValueCalls == 1

(***************************************************************************)
(* JavaScript values held by form fields.  Strings are sequences of        *)
(* one-character strings.  A number is a double: an infinity, or           *)
(* (-1)^negative * m * 2^e with m an odd natural number written in binary, *)
(* most significant bit first (0 and -0: m = <<>> and e = 0).              *)
(***************************************************************************)
Str(s) == [t |-> "string", s |-> s]
Bool(b) == [t |-> "boolean", b |-> b]
Undefined == [t |-> "undefined"]
NaN == [t |-> "NaN"]

\* the double (-1)^negative * m * 2^e, m in binary
Double(negative, m, e) ==
    [t |-> "number", negative |-> negative, infinite |-> FALSE, m |-> m, e |-> e]

\* 0 and -0
Zero(negative) == Double(negative, <<>>, 0)

\* Infinity and -Infinity
Infinity(negative) ==
    [t |-> "number", negative |-> negative, infinite |-> TRUE, m |-> <<>>, e |-> 0]

Digits == {"0", "1", "2", "3", "4", "5", "6", "7", "8", "9"}

\* the white space parseFloat skips (StrWhiteSpaceChar: WhiteSpace and
\* LineTerminator), as far as a string of the model can hold it: blank, tab, line
\* feed, form feed, carriage return, and, written as the characters themselves,
\* line tabulation (U+000B), no-break space (U+00A0), ogham space mark (U+1680)
\* and the byte order mark (U+FEFF).  The remaining ones (U+2000 to U+200A,
\* U+2028, U+2029, U+202F, U+205F, U+3000) cannot be written in a string here.
WhiteSpace == {" ", "\t", "\n", "\f", "\r", "", " ", " ", "﻿"}

DigitValue(c) == CHOOSE k \in 0..9 : <<"0", "1", "2", "3", "4", "5", "6", "7", "8", "9">>[k + 1] = c

RECURSIVE Pow10(_)
Pow10(k) == IF k = 0 THEN 1 ELSE 10 * Pow10(k - 1)

RECURSIVE Pow2(_)
Pow2(k) == IF k = 0 THEN 1 ELSE 2 * Pow2(k - 1)

\* the number of elements of the set the string starts with
Run(s, set) ==
    CHOOSE n \in 0..Len(s) : /\ \A i \in 1..n : s[i] \in set
                             /\ n = Len(s) \/ s[n + 1] \notin set

\* the string without its leading white space
TrimStart(s) == SubSeq(s, Run(s, WhiteSpace) + 1, Len(s))

\* the number of digits the string starts with
DigitRun(s) == Run(s, Digits)

\* the value of a string of digits, read in base ten (at most nine digits)
RECURSIVE DigitsValue(_)
DigitsValue(s) == IF s = <<>> THEN 0 ELSE 10 * DigitsValue(SubSeq(s, 1, Len(s) - 1)) + DigitValue(s[Len(s)])

\* whether the string starts with the prefix
StartsWith(s, prefix) == Len(s) >= Len(prefix) /\ SubSeq(s, 1, Len(prefix)) = prefix

\* whether the pattern occurs in the string (a regular expression that is a literal)
Contains(s, pattern) ==
    \E i \in 1..(Len(s) - Len(pattern) + 1) : SubSeq(s, i, i + Len(pattern) - 1) = pattern

\* the string without a leading sign
Unsigned(s) == IF s # <<>> /\ Head(s) \in {"-", "+"} THEN Tail(s) ELSE s

(***************************************************************************)
(* Natural numbers of any size, for the exact value of a decimal literal:  *)
(* sequences of limbs in base 10^4, the least significant limb first and   *)
(* the last limb not 0 (the number 0 is <<>>).                             *)
(***************************************************************************)
Base == 10000

\* the limbs without the zeros at their end
Trimmed(a) ==
    SubSeq(a, 1, CHOOSE n \in 0..Len(a) : /\ n = 0 \/ a[n] # 0
                                          /\ \A k \in (n + 1)..Len(a) : a[k] = 0)

\* the limb at place i, 0 beyond the limbs
Limb(a, i) == IF i >= 1 /\ i <= Len(a) THEN a[i] ELSE 0

\* the limbs of a natural number of the model, and the number of the model that
\* limbs write
RECURSIVE FromInteger(_)
FromInteger(n) == IF n = 0 THEN <<>> ELSE <<n % Base>> \o FromInteger(n \div Base)

RECURSIVE ToInteger(_)
ToInteger(a) == IF a = <<>> THEN 0 ELSE Head(a) + Base * ToInteger(Tail(a))

\* the natural number a string of digits writes
Natural(s) ==
    Trimmed([i \in 1..((Len(s) + 3) \div 4) |->
                DigitsValue(SubSeq(s, IF Len(s) - 4 * i + 1 < 1 THEN 1 ELSE Len(s) - 4 * i + 1,
                                   Len(s) - 4 * (i - 1)))])

\* the number of decimal digits of n (0 < n)
RECURSIVE DigitCount(_)
DigitCount(n) == IF n < 10 THEN 1 ELSE 1 + DigitCount(n \div 10)

\* the number of decimal digits of the natural number a (0 < a)
DecimalLength(a) == 4 * (Len(a) - 1) + DigitCount(a[Len(a)])

\* limbs below 2 * Base as a natural number: the carries are taken along (a limb
\* receives one when a limb below it overflows and those in between are full)
Carried(s) ==
    Trimmed([i \in 1..(Len(s) + 1) |->
                (Limb(s, i)
                   + (IF \E j \in 1..(i - 1) : /\ s[j] >= Base
                                                /\ \A k \in (j + 1)..(i - 1) : s[k] >= Base - 1
                      THEN 1 ELSE 0)) % Base])

\* a * k for 0 < k < Base
Times(a, k) ==
    Carried(SubSeq([i \in 1..(Len(a) + 1) |->
                       ((Limb(a, i) * k) % Base) + ((Limb(a, i - 1) * k) \div Base)],
                   1, Len(a) + 1))

\* a * 2^j
RECURSIVE TimesPow2(_, _)
TimesPow2(a, j) ==
    IF j <= 13 THEN Times(a, Pow2(j))
    ELSE LET half == TimesPow2(a, j \div 2)
         IN  IF half = <<>> THEN <<>> ELSE TimesPow2(half, j - j \div 2)

\* a * 10^j
TimesPow10(a, j) == [i \in 1..(j \div 4) |-> 0] \o Times(a, Pow10(j % 4))

\* a < b
Less(a, b) ==
    \/ Len(a) < Len(b)
    \/ /\ Len(a) = Len(b)
       /\ \E i \in 1..Len(a) : a[i] < b[i] /\ \A k \in (i + 1)..Len(a) : a[k] = b[k]

\* a - b for b <= a (a limb lends one when a limb below it falls short and those
\* in between are equal)
Minus(a, b) ==
    Trimmed([i \in 1..Len(a) |->
                (a[i] - Limb(b, i) + Base
                   - (IF \E j \in 1..(i - 1) : /\ a[j] < Limb(b, j)
                                                /\ \A k \in (j + 1)..(i - 1) : a[k] = Limb(b, k)
                      THEN 1 ELSE 0)) % Base])

\* a + b
Plus(a, b) ==
    Carried([i \in 1..(IF Len(a) > Len(b) THEN Len(a) ELSE Len(b)) |-> Limb(a, i) + Limb(b, i)])

\* An integer of any size: a sign and a natural number.  Whole(n) is the integer
\* n of the model, and Small(x) the integer of the model that x is.
Integer(negative, a) == [negative |-> negative /\ a # <<>>, m |-> a]

Whole(n) == Integer(n < 0, FromInteger(IF n < 0 THEN 0 - n ELSE n))

Small(x) == IF x.negative THEN 0 - ToInteger(x.m) ELSE ToInteger(x.m)

\* x + y
Sum(x, y) ==
    IF x.negative = y.negative THEN Integer(x.negative, Plus(x.m, y.m))
    ELSE IF Less(x.m, y.m) THEN Integer(y.negative, Minus(y.m, x.m))
    ELSE Integer(x.negative, Minus(x.m, y.m))

\* x > n and x < -n, for a natural number n of the model
Above(x, n) == ~x.negative /\ Less(FromInteger(n), x.m)

Below(x, n) == x.negative /\ Less(FromInteger(n), x.m)

\* a / 2, rounded down
Half(a) ==
    Trimmed([i \in 1..Len(a) |-> (a[i] + (IF Limb(a, i + 1) % 2 = 1 THEN Base ELSE 0)) \div 2])

\* one step of the long division of q.rest by divisor * 2^k, with q.t the divisor
\* times the power of two of this step: the next bit of the quotient
DivisionStep(q) ==
    IF Less(q.rest, q.t)
    THEN [rest |-> q.rest, t |-> Half(q.t), bits |-> Append(q.bits, 0)]
    ELSE [rest |-> Minus(q.rest, q.t), t |-> Half(q.t), bits |-> Append(q.bits, 1)]

\* so many steps of the division; with nothing left the remaining bits are 0
RECURSIVE Division(_, _)
Division(q, steps) ==
    IF steps = 1 THEN DivisionStep(q)
    ELSE LET first == Division(q, steps \div 2)
         IN  IF first.rest = <<>>
             THEN [first EXCEPT !.bits = @ \o [i \in 1..(steps - steps \div 2) |-> 0]]
             ELSE Division(first, steps - steps \div 2)

\* dividend / divisor rounded down, for a quotient below 2^60: its 60 bits, the
\* most significant first, and what is left of the dividend
QuotientBits(dividend, divisor) ==
    Division([rest |-> dividend, t |-> TimesPow2(divisor, 59), bits |-> <<>>], 60)

(***************************************************************************)
(* The double nearest to a decimal (ties to the even significand).         *)
(***************************************************************************)
\* the bits without the zeros at their start
Significant(bits) == SubSeq(bits, Run(bits, {0}) + 1, Len(bits))

\* the bits without the zeros at their end
Odd(bits) == Trimmed(bits)

\* bits + 1
Successor(bits) ==
    IF \A i \in 1..Len(bits) : bits[i] = 1 THEN <<1>> \o [i \in 1..Len(bits) |-> 0]
    ELSE [i \in 1..Len(bits) |->
             IF \A k \in (i + 1)..Len(bits) : bits[k] = 1 THEN 1 - bits[i] ELSE bits[i]]

\* the number of bits at the end that a significand of 53 bits cannot hold; at
\* least one is dropped, the quotient being scaled to 54 bits or more unless the
\* double is subnormal
Dropped(bits) == IF Len(bits) > 54 THEN Len(bits) - 53 ELSE 1

\* whether the dropped bits, with what the division left, are more than half a
\* unit of the last bit kept, or half a unit with the last bit kept odd
RoundsUp(bits, rest) ==
    /\ bits # <<>>
    /\ bits[Len(bits) - Dropped(bits) + 1] = 1
    /\ \/ rest # <<>>
       \/ \E i \in (Len(bits) - Dropped(bits) + 2)..Len(bits) : bits[i] = 1
       \/ Len(bits) > Dropped(bits) /\ bits[Len(bits) - Dropped(bits)] = 1

\* the bits kept, rounded
Mantissa(bits, rest) ==
    IF RoundsUp(bits, rest) THEN Successor(SubSeq(bits, 1, Len(bits) - Dropped(bits)))
    ELSE SubSeq(bits, 1, Len(bits) - Dropped(bits))

\* mantissa * 2^exponent as a double: Infinity from 2^1024 on
Binary(mantissa, exponent) ==
    IF Len(mantissa) + exponent > 1024 THEN Infinity(FALSE)
    ELSE IF Odd(mantissa) = <<>> THEN Zero(FALSE)
    ELSE Double(FALSE, Odd(mantissa), exponent + Len(mantissa) - Len(Odd(mantissa)))

\* the quotient bits * 2^scale (and what the division left) rounded to a double
Rounded(bits, rest, scale) == Binary(Mantissa(bits, rest), scale + Dropped(bits))

\* a lower bound of the binary order of a decimal of the given order (10^(order-1)
\* <= decimal < 10^order): the floor of (order - 1) * log2(10), or one less
Floor2(order) ==
    IF order >= 1 THEN ((order - 1) * 3321928) \div 1000000
    ELSE ((order - 1) * 3321929) \div 1000000

\* the power of two the decimal is divided by for a quotient of 54 to 58 bits;
\* not below 2^-1075, half the least subnormal double
Scale(order) == IF Floor2(order) - 53 < 0 - 1075 THEN 0 - 1075 ELSE Floor2(order) - 53

\* digits * 10^exponent / 2^scale as a fraction of natural numbers
Dividend(digits, exponent, scale) ==
    TimesPow2(IF exponent > 0 THEN TimesPow10(digits, exponent) ELSE digits,
              IF scale < 0 THEN 0 - scale ELSE 0)

Divisor(exponent, scale) ==
    TimesPow2(IF exponent < 0 THEN TimesPow10(<<1>>, 0 - exponent) ELSE <<1>>,
              IF scale > 0 THEN scale ELSE 0)

\* the double of a quotient and its scale
Quotient(q, scale) == Rounded(Significant(q.bits), q.rest, scale)

\* the order of digits * 10^exponent: the k with 10^(k-1) <= it < 10^k; the
\* exponent is an integer of any size, and so is the order
Order(digits, exponent) == Sum(Whole(DecimalLength(digits)), exponent)

\* digits * 10^exponent as a double, for an exponent of any size.  Beyond the
\* orders 309 and -323 the result is Infinity or 0 (the largest double is below
\* 1.8 * 10^308, and 10^-324 is below 2^-1075); within them the exponent is an
\* integer of the model, the decimal is divided by a power of two and the quotient
\* rounded.
Scaled(digits, exponent) ==
    IF digits = <<>> THEN Zero(FALSE)
    ELSE IF Above(Order(digits, exponent), 309) THEN Infinity(FALSE)
    ELSE IF Below(Order(digits, exponent), 323) THEN Zero(FALSE)
    ELSE Quotient(QuotientBits(Dividend(digits, Small(exponent),
                                        Scale(Small(Order(digits, exponent)))),
                               Divisor(Small(exponent), Scale(Small(Order(digits, exponent))))),
                  Scale(Small(Order(digits, exponent))))

\* the number with its sign
Signed(negative, v) == IF negative THEN [v EXCEPT !.negative = TRUE] ELSE v

\* the number literal n / 10^d
Num(n, d) == Signed(n < 0, Scaled(FromInteger(IF n < 0 THEN 0 - n ELSE n), Whole(0 - d)))

\* the digits the string starts with, and what follows
IntegerPart(s) ==
    [digits |-> SubSeq(s, 1, DigitRun(s)), rest |-> SubSeq(s, DigitRun(s) + 1, Len(s))]

\* a decimal point and the digits after it, when the string starts with a point
FractionPart(s) ==
    IF s # <<>> /\ Head(s) = "." THEN IntegerPart(Tail(s))
    ELSE [digits |-> <<>>, rest |-> s]

\* the exponent the string starts with, an integer of any size: e or E, an
\* optional sign and at least one digit; 0 without one
ExponentPart(s) ==
    IF s # <<>> /\ Head(s) \in {"e", "E"}
    THEN Integer(StartsWith(Tail(s), <<"-">>), Natural(IntegerPart(Unsigned(Tail(s))).digits))
    ELSE Whole(0)

\* the number of the longest prefix of s that is Infinity or digits with an
\* optional fraction and an optional exponent; NaN without such a prefix
StrDecimalLiteral(s, negative) ==
    IF StartsWith(s, <<"I", "n", "f", "i", "n", "i", "t", "y">>) THEN Infinity(negative)
    ELSE IF IntegerPart(s).digits = <<>> /\ FractionPart(IntegerPart(s).rest).digits = <<>> THEN NaN
    ELSE Signed(negative,
                Scaled(Natural(IntegerPart(s).digits \o FractionPart(IntegerPart(s).rest).digits),
                       Sum(ExponentPart(FractionPart(IntegerPart(s).rest).rest),
                           Whole(0 - Len(FractionPart(IntegerPart(s).rest).digits)))))

\* parseFloat(str): white space is skipped, then the longest prefix that is a
\* StrDecimalLiteral is read, after an optional sign; what follows is ignored, and
\* without such a prefix the result is NaN.  The result is the double nearest to
\* the decimal read.
parseFloat(str) ==
    StrDecimalLiteral(Unsigned(TrimStart(str)), StartsWith(TrimStart(str), <<"-">>))

isNaN(v) == v.t = "NaN"

\* the type names of the event targets, as strings of characters
TextType == <<"t", "e", "x", "t">>
NumberType == <<"n", "u", "m", "b", "e", "r">>
RangeType == <<"r", "a", "n", "g", "e">>
CheckboxType == <<"c", "h", "e", "c", "k", "b", "o", "x">>
RadioType == <<"r", "a", "d", "i", "o">>
SelectOneType == <<"s", "e", "l", "e", "c", "t", "-", "o", "n", "e">>

\* /number|range/.test(type): the type contains "number" or "range"
IsNumberOrRange(type) == Contains(type, NumberType) \/ Contains(type, RangeType)

\* /checkbox/.test(type): the type contains "checkbox"
IsCheckbox(type) == Contains(type, CheckboxType)

\* value(event) without the isNaN test on the parsed number
valueWithoutNaNTest(target) ==
    IF IsNumberOrRange(target.type) THEN parseFloat(target.value)
    ELSE IF IsCheckbox(target.type) THEN Bool(target.checked)
    ELSE Str(target.value)

\* value(event): the semantic value of the event's target
value(target) ==
    IF IsNumberOrRange(target.type)
    THEN LET parsed == parseFloat(target.value)
         IN  IF isNaN(parsed) THEN Str(<<>>) ELSE parsed
    ELSE IF IsCheckbox(target.type) THEN Bool(target.checked)
    ELSE Str(target.value)

(***************************************************************************)
(* Objects are functions from their keys.                                  *)
(***************************************************************************)
EmptyObject == [k \in {} |-> Undefined]

Keys(o) == DOMAIN o

\* { ...o, [k]: v }
Assign(o, k, v) == [x \in DOMAIN o \cup {k} |-> IF x = k THEN v ELSE o[x]]

\* const { [k]: _, ...rest } = o
Omit(o, k) == [x \in DOMAIN o \ {k} |-> o[x]]

\* o[k], undefined when o has no such key
Get(o, k) == IF k \in DOMAIN o THEN o[k] ELSE Undefined

(***************************************************************************)
(* Inputs of the model: the options the owning component passes, the       *)
(* event targets of its inputs, and what validate resolves with.           *)
(***************************************************************************)
\* "John", "Wendy", "Joe" and "No!" as strings
John == <<"J", "o", "h", "n">>
Wendy == <<"W", "e", "n", "d", "y">>
Joe == <<"J", "o", "e">>

\* the initialValues the owning component may pass in a new object on a later
\* activation (first: string, age: number): other than the first ones, and, once
\* passed, the same contents again
InitialValuesChoices ==
    { ("first" :> Str(Wendy) @@ "age" :> Num(20, 0)) }

\* event.target of the change events: { name, type, value, checked }
ChangeTargets ==
    { [name |-> "first", type |-> TextType, value |-> Joe, checked |-> FALSE],
      [name |-> "extra", type |-> CheckboxType, value |-> <<"o", "n">>, checked |-> TRUE] }

\* event.target.name of the blur events; "extra" is no key of initialValues
BlurNames == {"first", "age", "extra"}

\* the fields resetValue is called on
ResetNames == {"first"}

\* the error mappings validate may resolve with
ValidateResults ==
    { EmptyObject, ("first" :> "invalid") }

\* the error mappings the caller passes to setErrors
SetErrorsChoices == { ("age" :> "server"), EmptyObject }

(***************************************************************************)
(* State.                                                                  *)
(***************************************************************************)
VARIABLES
    calls,          \* handler calls made so far
    errors,         \* useState({}): the errors cell
    values,         \* useState(initialValues): the values cell
    touched,        \* useState({}): the touched cell
    isSubmitting,   \* useState(false)
    submitCount,    \* useState(0)
    initialRender,  \* useRef(true).current
    options,        \* the options of the latest activation
    dependencies,   \* the dependency-extraction function: "noDependencies" or "initialValues"
    rendered,       \* the state the handlers of the latest activation closed over
    batch,          \* handler calls since the latest activation
    pendingEffect,  \* the effect scheduled by the latest activation, not yet run
    running,        \* the handler call in progress outside a batch (none: <<>>)
    chains,         \* promise chains in flight (a bag): handleValidate calls and submit attempts
    last,           \* history: the latest step, what it called and how it ended
    activated       \* history: whether the latest step ended with an activation, and whether
                    \* that one was passed a new initialValues object

cells == <<errors, values, touched, isSubmitting, submitCount>>

vars == <<calls, errors, values, touched, isSubmitting, submitCount, initialRender,
          options, dependencies, rendered, batch, pendingEffect, running, chains, last,
          activated>>

\* what an activation reads from the cells and returns to the component
Snapshot(e, v, t, s, c) ==
    [errors |-> e, values |-> v, touched |-> t, isSubmitting |-> s, submitCount |-> c]

\* a step of the history; args: the argument of the handler called (the event
\* target of handleChange, the mapping passed to setErrors)
Step(op, name, flag, vArgs, vResult, sArgs, outcome) ==
    [op |-> op, name |-> name, flag |-> flag, args |-> {}, validateArgs |-> vArgs,
     validateResult |-> vResult, onSubmitArgs |-> sArgs, outcome |-> outcome]

\* the configurations of the model: validateOnBlur, validateOnChange (both on, the
\* default, or one of them off) and the dependency-extraction function (none
\* given, the default, or options => [options.initialValues])
Configurations ==
    { [validateOnBlur |-> TRUE, validateOnChange |-> TRUE, dependencies |-> "noDependencies"],
      [validateOnBlur |-> TRUE, validateOnChange |-> FALSE, dependencies |-> "initialValues"],
      [validateOnBlur |-> FALSE, validateOnChange |-> TRUE, dependencies |-> "noDependencies"] }

\* the initialValues of the first activation
FirstInitialValues == ("first" :> Str(John) @@ "age" :> Num(20, 0))

\* the options the owning component passes at an activation that the hook's own
\* setter calls cause: the initialValues of the latest activation, in the same
\* object or in a new one (newObject; an object literal in the body of the
\* component is a new object at every activation)
RerenderOptions ==
    { [initialValues |-> options.initialValues, newObject |-> b] : b \in BOOLEAN }

\* the options the owning component may pass at an activation that its parent
\* causes: those, or a new object with other contents
NextOptions ==
    RerenderOptions \cup
    { [initialValues |-> iv, newObject |-> TRUE] : iv \in InitialValuesChoices }

\* the state after construction had the values cell started empty
InitWithEmptyValues ==
    /\ \E c \in Configurations :
         /\ options = [initialValues |-> FirstInitialValues,
                       validateOnBlur |-> c.validateOnBlur,
                       validateOnChange |-> c.validateOnChange]
         /\ dependencies = c.dependencies
    /\ values = EmptyObject
    /\ errors = EmptyObject
    /\ touched = EmptyObject
    /\ isSubmitting = FALSE
    /\ submitCount = 0
    /\ rendered = Snapshot(errors, values, touched, isSubmitting, submitCount)
    /\ initialRender = TRUE
    /\ calls = 0
    /\ batch = 0
    /\ pendingEffect = "none"
    /\ running = <<>>
    /\ chains = EmptyBag
    /\ last = Step("useForm", "", FALSE, {}, {}, {}, "none")
    /\ activated = "none"

Init ==
    /\ \E c \in Configurations :
         /\ options = [initialValues |-> FirstInitialValues,
                       validateOnBlur |-> c.validateOnBlur,
                       validateOnChange |-> c.validateOnChange]
         /\ dependencies = c.dependencies
    /\ values = options.initialValues
    /\ errors = EmptyObject
    /\ touched = EmptyObject
    /\ isSubmitting = FALSE
    /\ submitCount = 0
    /\ rendered = Snapshot(errors, values, touched, isSubmitting, submitCount)
    /\ initialRender = TRUE
    /\ calls = 0
    /\ batch = 0
    /\ pendingEffect = "none"
    /\ running = <<>>
    /\ chains = EmptyBag
    /\ last = Step("useForm", "", FALSE, {}, {}, {}, "none")
    /\ activated = "none"

(***************************************************************************)
(* The parts of the handlers.                                              *)
(***************************************************************************)
\* shouldValidate(touchedFields): every key of initialValues is among them
shouldValidate(touchedFields) ==
    \A f \in Keys(options.initialValues) : f \in touchedFields

\* handleValidate ignoring its argument
ValidateArgumentIgnored(nextValues, given) == rendered.values

\* handleValidate(nextValues): the values validate is called with (nextValues || values)
ValidateArgument(nextValues, given) ==
    IF given THEN nextValues ELSE rendered.values

\* the chain handleValidate leaves in flight: validate(...).then(setErrors)
ValidationChain(vals) == [kind |-> "validate", stage |-> "validate", vals |-> EmptyObject]

\* a chain whose onSubmit would read the initialValues instead of the values validated
SubmitChainWithInitialValues(vals) ==
    [kind |-> "submit", stage |-> "validate", vals |-> options.initialValues]

\* the chain handleSubmit leaves in flight: validate, then maybe onSubmit, then settle
SubmitChain(vals) == [kind |-> "submit", stage |-> "validate", vals |-> vals]

\* the chains in flight with one more, and with one less
Add(bag, c) == bag (+) SetToBag({c})

Remove(bag, c) == bag (-) SetToBag({c})

\* resetForm without setSubmitCount(0)
ResetFormStateKeepingCount(initialValues) ==
    Snapshot(EmptyObject, initialValues, EmptyObject, FALSE, rendered.submitCount)

\* what resetForm writes to the five cells, in a closure over initialValues
ResetFormState(initialValues) == Snapshot(EmptyObject, initialValues, EmptyObject, FALSE, 0)

\* handleSubmit: setSubmitCount(submitCount + 1)
SubmitCountWritten == rendered.submitCount + 1

\* handleSubmit: every key of values and of initialValues, each set to true
SubmitTouched ==
    [k \in Keys(rendered.values) \cup Keys(options.initialValues) |-> TRUE]

\* handleSubmit: the values passed to validate, and later to onSubmit
SubmitValues == rendered.values

\* the first continuation without the test on the errors
CallsOnSubmitAlways(errs) == TRUE

\* handleSubmit, first continuation: onSubmit is called when the errors have no keys
CallsOnSubmit(errs) == Keys(errs) = {}

\* resetValue: the three mappings it writes
ResetValueErrors(f) == Omit(rendered.errors, f)

ResetValueValues(f) == Assign(rendered.values, f, Get(options.initialValues, f))

ResetValueTouched(f) == Omit(rendered.touched, f)

\* handleBlur: the touched mapping it writes, and whether it validates
BlurTouched(name) == Assign(rendered.touched, name, TRUE)

BlurValidates(name) ==
    options.validateOnBlur /\ shouldValidate(Keys(rendered.touched) \cup {name})

\* handleChange: the values it writes, and whether it validates
ChangeValues(target) == Assign(rendered.values, target.name, value(target))

ChangeValidates == options.validateOnChange /\ shouldValidate(Keys(rendered.touched))

\* an effect that never runs again, and one that runs for every new initialValues
\* object whatever the dependency-extraction function
DependenciesNeverChanged(newOptions) == FALSE

DependenciesChangedWithObject(newOptions) == newOptions.newObject

\* useEffect(..., dependencies(options)): the effect runs when an element of the
\* list differs, by identity, from its value at the previous activation; the list
\* is empty (noDependencies) or holds the initialValues object
DependenciesChanged(newOptions) ==
    dependencies = "initialValues" /\ newOptions.newObject

\* the effect body: resetForm() unless this is the initial render
EffectResets == ~initialRender

(***************************************************************************)
(* Activations.                                                            *)
(***************************************************************************)
\* The effect body: resetForm() unless this is the initial render, then the flag
\* is cleared.  step and trigger name the step in the history.
Effect(initialValues, step, trigger) ==
    /\ IF EffectResets
       THEN /\ errors' = ResetFormState(initialValues).errors
            /\ values' = ResetFormState(initialValues).values
            /\ touched' = ResetFormState(initialValues).touched
            /\ isSubmitting' = ResetFormState(initialValues).isSubmitting
            /\ submitCount' = ResetFormState(initialValues).submitCount
       ELSE UNCHANGED cells
    /\ initialRender' = FALSE
    /\ last' = Step(step, trigger, EffectResets, {}, {}, {}, "none")

\* When React runs a scheduled effect, besides on its own: before it processes the
\* next call of a state setter (React 16.8), or when the next render starts.
EffectPolicies == {"setter", "render"}

\* What every activation after the first does, with the options it is passed: the
\* handlers close over the cells as written, and useEffect compares the dependency
\* list with the one of the previous activation and schedules the effect when an
\* element differs.  No effect is pending when an activation starts (React runs a
\* pending effect before it renders).
Activation(newOptions) ==
    /\ rendered' = Snapshot(errors', values', touched', isSubmitting', submitCount')
    /\ pendingEffect' \in (IF DependenciesChanged(newOptions) THEN EffectPolicies ELSE {"none"})
    /\ activated' = IF newOptions.newObject THEN "newObject" ELSE "sameObject"

\* The effect of the first activation (an effect always runs after the first).  It
\* runs after the activation has returned: handlers called before it (from the
\* component's layout effects) have written the cells, and the render that ends
\* their batch starts with this effect.
MountEffect ==
    /\ initialRender
    /\ Effect(options.initialValues, "mount", "firstObject")
    /\ batch' = 0
    /\ UNCHANGED <<calls, options, dependencies, running, chains>>
    /\ IF batch > 0
       THEN \E newOptions \in RerenderOptions : Activation(newOptions)
       ELSE /\ UNCHANGED <<rendered, pendingEffect>>
            /\ activated' = "none"

\* A later activation that the parent of the component causes: the pending writes
\* are applied and the handlers close over the state and the options of this
\* activation; the cells are not written.  When a dependency changed the effect is
\* scheduled, to run after the activation has returned.
Activate(newOptions) ==
    /\ ~initialRender
    /\ pendingEffect = "none"
    /\ running = <<>>
    /\ options' = [options EXCEPT !.initialValues = newOptions.initialValues]
    /\ batch' = 0
    /\ last' = Step("activate", IF newOptions.newObject THEN "newObject" ELSE "sameObject",
                    DependenciesChanged(newOptions), {}, {}, {}, "none")
    /\ UNCHANGED <<cells, initialRender, calls, dependencies, running, chains>>
    /\ Activation(newOptions)

\* The scheduled effect runs, in the closure of the activation that scheduled it:
\* resetForm() writes the five cells.  On its own, or at the start of a render that
\* is due, the writes are followed by an activation; inSetter: the effect is run
\* by the next setter call of a handler or continuation that is being called,
\* whose writes follow in the next step, before any activation.  During a handler
\* call outside a batch the effect runs at the start of a render that is due, or
\* in the next setter call of that handler.
RunEffect(inSetter) ==
    /\ pendingEffect # "none"
    /\ inSetter => pendingEffect = "setter"
    /\ running # <<>> => (pendingEffect = "due" \/ (inSetter /\ running[1].setters # <<>>))
    /\ Effect(options.initialValues, "effect", IF inSetter THEN "setter" ELSE "render")
    /\ UNCHANGED <<calls, options, dependencies, running, chains>>
    /\ IF inSetter
       THEN /\ pendingEffect' = "none"
            /\ UNCHANGED <<rendered, batch>>
            /\ activated' = "none"
       ELSE /\ batch' = 0
            /\ \E newOptions \in RerenderOptions : Activation(newOptions)

(***************************************************************************)
(* The handlers and setters the component calls.  They read the latest     *)
(* activation (rendered, options) and write the cells.                     *)
(***************************************************************************)
\* A handler can be called once the first activation has returned, also before
\* the effect of that activation has run, and not while another call is running.
\* (With an effect to be run by the next setter call, RunEffect comes first.)
CanCall ==
    /\ running = <<>>
    /\ batch < MaxBatch
    /\ calls < MaxCalls
    /\ pendingEffect \in {"none", "render"}

\* The end of a call made in a batch: the batch goes on, or (at the bound of the
\* model) it ends here and React activates the component on the cells; with an
\* effect pending (the first one included), the render that ends the batch starts
\* with the effect.
Called ==
    /\ calls' = calls + 1
    /\ UNCHANGED running
    /\ IF batch + 1 < MaxBatch \/ pendingEffect # "none" \/ initialRender
       THEN /\ batch' = batch + 1
            /\ UNCHANGED <<rendered, pendingEffect>>
            /\ activated' = "none"
       ELSE /\ batch' = 0
            /\ \E newOptions \in RerenderOptions : Activation(newOptions)

\* A setter call that schedules nothing: it is passed the very object its cell
\* holds (same: it has the contents the cell holds, and may be that object) while
\* no write is pending.  No activation follows, and a pending effect stays pending.
Unscheduled(same) ==
    /\ same
    /\ batch = 0
    /\ rendered = Snapshot(errors, values, touched, isSubmitting, submitCount)
    /\ calls' = calls + 1
    /\ UNCHANGED <<rendered, batch, pendingEffect, running>>
    /\ activated' = "none"

\* handleValidate where validate returns (a value or a promise): one more chain
Validating(vals) ==
    /\ BagCardinality(chains) < MaxInFlight
    /\ chains' = Add(chains, ValidationChain(vals))

\* resetForm dropping the promise chains in flight
resetFormCancelling ==
    /\ CanCall
    /\ errors' = ResetFormState(options.initialValues).errors
    /\ values' = ResetFormState(options.initialValues).values
    /\ touched' = ResetFormState(options.initialValues).touched
    /\ isSubmitting' = ResetFormState(options.initialValues).isSubmitting
    /\ submitCount' = ResetFormState(options.initialValues).submitCount
    /\ last' = Step("resetForm", "", FALSE, {}, {}, {}, "none")
    /\ chains' = EmptyBag
    /\ UNCHANGED <<initialRender, options, dependencies>>
    /\ Called

resetForm ==
    /\ CanCall
    /\ errors' = ResetFormState(options.initialValues).errors
    /\ values' = ResetFormState(options.initialValues).values
    /\ touched' = ResetFormState(options.initialValues).touched
    /\ isSubmitting' = ResetFormState(options.initialValues).isSubmitting
    /\ submitCount' = ResetFormState(options.initialValues).submitCount
    /\ last' = Step("resetForm", "", FALSE, {}, {}, {}, "none")
    /\ UNCHANGED <<initialRender, options, dependencies, chains>>
    /\ Called

resetValue(f, shouldResetTouched) ==
    /\ CanCall
    /\ errors' = ResetValueErrors(f)
    /\ values' = ResetValueValues(f)
    /\ touched' = IF shouldResetTouched THEN ResetValueTouched(f) ELSE touched
    /\ last' = Step("resetValue", f, shouldResetTouched, {}, {}, {}, "none")
    /\ UNCHANGED <<isSubmitting, submitCount, initialRender, options, dependencies,
                   chains>>
    /\ Called

\* setErrors merging the new errors into the errors of the activation
setErrorsMerging(newErrors) ==
    /\ CanCall
    /\ errors' = [k \in Keys(rendered.errors) \cup Keys(newErrors) |->
                      IF k \in Keys(newErrors) THEN newErrors[k] ELSE rendered.errors[k]]
    /\ last' = [Step("setErrors", "", FALSE, {}, {}, {}, "none") EXCEPT !.args = {newErrors}]
    /\ UNCHANGED <<values, touched, isSubmitting, submitCount, initialRender, options,
                   dependencies, chains>>
    /\ Called \/ Unscheduled(newErrors = errors)

\* setErrors is the setter of the errors cell itself
setErrors(newErrors) ==
    /\ CanCall
    /\ errors' = newErrors
    /\ last' = [Step("setErrors", "", FALSE, {}, {}, {}, "none") EXCEPT !.args = {newErrors}]
    /\ UNCHANGED <<values, touched, isSubmitting, submitCount, initialRender, options,
                   dependencies, chains>>
    /\ Called \/ Unscheduled(newErrors = errors)

\* validateThrows: validate throws synchronously, inside the handler
handleBlur(name, validateThrows) ==
    /\ CanCall
    /\ touched' = BlurTouched(name)
    /\ IF BlurValidates(name)
       THEN LET arg == ValidateArgument(EmptyObject, FALSE)
            IN  /\ IF validateThrows THEN UNCHANGED chains ELSE Validating(arg)
                /\ last' = Step("handleBlur", name, FALSE, {arg}, {}, {},
                                IF validateThrows THEN "threw" ELSE "none")
       ELSE /\ ~validateThrows
            /\ UNCHANGED chains
            /\ last' = Step("handleBlur", name, FALSE, {}, {}, {}, "none")
    /\ UNCHANGED <<errors, values, isSubmitting, submitCount, initialRender, options,
                   dependencies>>
    /\ Called

handleChange(target, validateThrows) ==
    /\ CanCall
    /\ values' = ChangeValues(target)
    /\ IF ChangeValidates
       THEN LET arg == ValidateArgument(ChangeValues(target), TRUE)
            IN  /\ IF validateThrows THEN UNCHANGED chains ELSE Validating(arg)
                /\ last' = [Step("handleChange", target.name, FALSE, {arg}, {}, {},
                                 IF validateThrows THEN "threw" ELSE "none")
                              EXCEPT !.args = {target}]
       ELSE /\ ~validateThrows
            /\ UNCHANGED chains
            /\ last' = [Step("handleChange", target.name, FALSE, {}, {}, {}, "none")
                          EXCEPT !.args = {target}]
    /\ UNCHANGED <<errors, touched, isSubmitting, submitCount, initialRender, options,
                   dependencies>>
    /\ Called

\* handleSubmit returning at once while the activation shows a submit in progress
handleSubmitUnlessSubmitting(validateThrows) ==
    /\ CanCall
    /\ IF rendered.isSubmitting
       THEN /\ ~validateThrows
            /\ UNCHANGED <<isSubmitting, submitCount, touched, chains>>
            /\ last' = Step("handleSubmit", "", FALSE, {}, {}, {}, "ignored")
       ELSE /\ isSubmitting' = TRUE
            /\ submitCount' = SubmitCountWritten
            /\ touched' = SubmitTouched
            /\ IF validateThrows
               THEN /\ UNCHANGED chains
                    /\ last' = Step("handleSubmit", "", FALSE, {SubmitValues}, {}, {}, "threw")
               ELSE /\ BagCardinality(chains) < MaxInFlight
                    /\ chains' = Add(chains, SubmitChain(SubmitValues))
                    /\ last' = Step("handleSubmit", "", FALSE, {SubmitValues}, {}, {}, "pending")
    /\ UNCHANGED <<errors, values, initialRender, options, dependencies>>
    /\ Called

\* handleSubmit up to its return: the three writes, then validate(values); when
\* validate throws, the call throws and no promise is returned
handleSubmit(validateThrows) ==
    /\ CanCall
    /\ isSubmitting' = TRUE
    /\ submitCount' = SubmitCountWritten
    /\ touched' = SubmitTouched
    /\ IF validateThrows
       THEN /\ UNCHANGED chains
            /\ last' = Step("handleSubmit", "", FALSE, {SubmitValues}, {}, {}, "threw")
       ELSE /\ BagCardinality(chains) < MaxInFlight
            /\ chains' = Add(chains, SubmitChain(SubmitValues))
            /\ last' = Step("handleSubmit", "", FALSE, {SubmitValues}, {}, {}, "pending")
    /\ UNCHANGED <<errors, values, initialRender, options, dependencies>>
    /\ Called

(***************************************************************************)
(* The promise continuations.  They run from a flushed state (no batch is  *)
(* open), use the values their handler closed over, and every write is     *)
(* followed by an activation.                                              *)
(***************************************************************************)
Flushed ==
    /\ ~initialRender
    /\ batch = 0
    /\ running = <<>>
    /\ pendingEffect \in {"none", "render"}

\* The activation that follows a setter call outside a batch.  With an effect that
\* runs when the next render starts, the render is due and the effect comes first.
\* React renders nothing when the value written is the very value the cell holds:
\* mayBeSame says that it may be (a primitive, or an object from outside the
\* hook), and then, written over an equal value, the effect may stay pending.
Rerenders(mayBeSame) ==
    /\ UNCHANGED batch
    /\ IF pendingEffect = "render"
       THEN /\ pendingEffect' \in (IF mayBeSame /\ cells' = cells
                                    THEN {"render", "due"} ELSE {"due"})
            /\ UNCHANGED rendered
            /\ activated' = "none"
       ELSE \/ \E newOptions \in RerenderOptions : Activation(newOptions)
            \/ /\ mayBeSame
               /\ cells' = cells
               /\ rendered = Snapshot(errors, values, touched, isSubmitting, submitCount)
               /\ UNCHANGED <<rendered, pendingEffect>>
               /\ activated' = "none"

\* after the setter call of a continuation: setErrors(errors) with what validate
\* resolved with, or setIsSubmitting(false)
Renders == Rerenders(TRUE)

\* what onSubmit(values) may do when called
OnSubmitBehaviours == {"returns", "throws", "pending"}

\* handleValidate merging the resolved errors into the errors of the activation
validationResolvesMerging(c, errs) ==
    /\ Flushed
    /\ UNCHANGED <<calls, running>>
    /\ BagIn(c, chains)
    /\ c.kind = "validate"
    /\ errors' = [k \in Keys(errors) \cup Keys(errs) |->
                      IF k \in Keys(errs) THEN errs[k] ELSE errors[k]]
    /\ chains' = Remove(chains, c)
    /\ last' = Step("validationResolves", "", FALSE, {}, {errs}, {}, "none")
    /\ UNCHANGED <<values, touched, isSubmitting, submitCount, initialRender, options,
                   dependencies>>
    /\ Renders

\* handleValidate dropping its result while another chain is in flight
validationResolvesUnlessSuperseded(c, errs) ==
    /\ Flushed
    /\ UNCHANGED <<calls, running>>
    /\ BagIn(c, chains)
    /\ c.kind = "validate"
    /\ errors' = IF BagCardinality(chains) > 1 THEN errors ELSE errs
    /\ chains' = Remove(chains, c)
    /\ last' = Step("validationResolves", "", FALSE, {}, {errs}, {}, "none")
    /\ UNCHANGED <<values, touched, isSubmitting, submitCount, initialRender, options,
                   dependencies>>
    /\ Renders

\* handleValidate: validate(...) resolved with errs, then setErrors(errs)
validationResolves(c, errs) ==
    /\ Flushed
    /\ UNCHANGED <<calls, running>>
    /\ BagIn(c, chains)
    /\ c.kind = "validate"
    /\ errors' = errs
    /\ chains' = Remove(chains, c)
    /\ last' = Step("validationResolves", "", FALSE, {}, {errs}, {}, "none")
    /\ UNCHANGED <<values, touched, isSubmitting, submitCount, initialRender, options,
                   dependencies>>
    /\ Renders

\* handleValidate: validate(...) rejected; the chain has no catch and writes
\* nothing: no setter is called, and an effect that the next setter call is to run
\* stays pending
validationRejects(c) ==
    /\ ~initialRender
    /\ batch = 0
    /\ running = <<>>
    /\ pendingEffect # "due"
    /\ UNCHANGED <<calls, running>>
    /\ BagIn(c, chains)
    /\ c.kind = "validate"
    /\ chains' = Remove(chains, c)
    /\ last' = Step("validationRejects", "", FALSE, {}, {}, {}, "none")
    /\ UNCHANGED <<errors, values, touched, isSubmitting, submitCount, initialRender,
                   options, dependencies, rendered, batch, pendingEffect>>
    /\ activated' = "none"

\* where the first continuation of handleSubmit leaves the chain: at the second
\* continuation ("then": nothing to wait for), at the catch (onSubmit threw), or
\* waiting for the promise onSubmit returned
StageAfter(errs, behaviour) ==
    IF ~CallsOnSubmit(errs) THEN "then"
    ELSE CASE behaviour = "returns" -> "then"
           [] behaviour = "throws" -> "catch"
           [] behaviour = "pending" -> "onSubmit"

\* handleSubmit, first continuation: validate(values) resolved with errs.
\* setErrors(errs), with its activation; then, with no keys in errs,
\* onSubmit(values) is called with the values of the handler's closure.
\* isSubmitting is written by a later continuation.
submitValidateResolves(c, errs, behaviour) ==
    /\ Flushed
    /\ UNCHANGED <<calls, running>>
    /\ BagIn(c, chains)
    /\ c.kind = "submit"
    /\ c.stage = "validate"
    /\ ~CallsOnSubmit(errs) => behaviour = "returns"
    /\ errors' = errs
    /\ chains' = Add(Remove(chains, c), [c EXCEPT !.stage = StageAfter(errs, behaviour)])
    /\ last' = Step("submitValidateResolves", "", FALSE, {}, {errs},
                    IF CallsOnSubmit(errs) THEN {c.vals} ELSE {}, "pending")
    /\ UNCHANGED <<values, touched, isSubmitting, submitCount, initialRender, options,
                   dependencies>>
    /\ Renders

\* handleSubmit, one tick after the first continuation ended: the second
\* continuation, setIsSubmitting(false), and the returned promise resolves; or,
\* when onSubmit threw, the catch: setIsSubmitting(false), and it rejects
submitSettles(c) ==
    /\ Flushed
    /\ UNCHANGED <<calls, running>>
    /\ BagIn(c, chains)
    /\ c.kind = "submit"
    /\ c.stage \in {"then", "catch"}
    /\ isSubmitting' = FALSE
    /\ chains' = Remove(chains, c)
    /\ last' = Step("submitSettles", "", FALSE, {}, {}, {},
                    IF c.stage = "then" THEN "resolved" ELSE "rejected")
    /\ UNCHANGED <<errors, values, touched, submitCount, initialRender, options,
                   dependencies>>
    /\ Renders

\* a catch that also clears the errors
submitValidateRejectsClearingErrors(c) ==
    /\ Flushed
    /\ UNCHANGED <<calls, running>>
    /\ BagIn(c, chains)
    /\ c.kind = "submit"
    /\ c.stage = "validate"
    /\ isSubmitting' = FALSE
    /\ errors' = EmptyObject
    /\ chains' = Remove(chains, c)
    /\ last' = Step("submitValidateRejects", "", FALSE, {}, {}, {}, "rejected")
    /\ UNCHANGED <<values, touched, submitCount, initialRender, options,
                   dependencies>>
    /\ Renders

\* handleSubmit: validate(values) rejected; the catch sets isSubmitting false and
\* rejects the returned promise with the same error
submitValidateRejects(c) ==
    /\ Flushed
    /\ UNCHANGED <<calls, running>>
    /\ BagIn(c, chains)
    /\ c.kind = "submit"
    /\ c.stage = "validate"
    /\ isSubmitting' = FALSE
    /\ chains' = Remove(chains, c)
    /\ last' = Step("submitValidateRejects", "", FALSE, {}, {}, {}, "rejected")
    /\ UNCHANGED <<errors, values, touched, submitCount, initialRender, options,
                   dependencies>>
    /\ Renders

\* handleSubmit: the promise onSubmit returned settled.  Fulfilled, the second
\* continuation runs, rejected, the catch: either way isSubmitting becomes false,
\* and a rejection is passed on to the caller
onSubmitSettles(c, fulfilled) ==
    /\ Flushed
    /\ UNCHANGED <<calls, running>>
    /\ BagIn(c, chains)
    /\ c.kind = "submit"
    /\ c.stage = "onSubmit"
    /\ isSubmitting' = FALSE
    /\ chains' = Remove(chains, c)
    /\ last' = Step("onSubmitSettles", "", FALSE, {}, {}, {},
                    IF fulfilled THEN "resolved" ELSE "rejected")
    /\ UNCHANGED <<errors, values, touched, submitCount, initialRender, options,
                   dependencies>>
    /\ Renders

(***************************************************************************)
(* Handler calls outside a batch.  React activates the component after     *)
(* each setter call (with a pending effect first, when the render starts), *)
(* and the call goes on in its closure: what it writes next was computed   *)
(* from the activation whose handler was called.  setErrors, handleBlur    *)
(* and handleChange call one setter: outside a batch they are the call     *)
(* above followed by the effect or by an activation.                       *)
(***************************************************************************)
\* the setter calls of resetForm, resetValue and handleSubmit, in their order
ResetFormSetters == <<"errors", "values", "touched", "isSubmitting", "submitCount">>

ResetValueSetters(shouldResetTouched) ==
    IF shouldResetTouched THEN <<"errors", "values", "touched">> ELSE <<"errors", "values">>

SubmitSetters == <<"isSubmitting", "submitCount", "touched">>

\* whether a setter call may write the very value its cell holds: a boolean, a
\* number, or the initialValues object; the other mappings are new objects
MayBeSame(op, cell) ==
    \/ cell \in {"isSubmitting", "submitCount"}
    \/ op = "resetForm" /\ cell = "values"

\* one setter call of the running call, and the activation that follows it
SetterCall(op, cell, writes) ==
    /\ errors' = IF cell = "errors" THEN writes.errors ELSE errors
    /\ values' = IF cell = "values" THEN writes.values ELSE values
    /\ touched' = IF cell = "touched" THEN writes.touched ELSE touched
    /\ isSubmitting' = IF cell = "isSubmitting" THEN writes.isSubmitting ELSE isSubmitting
    /\ submitCount' = IF cell = "submitCount" THEN writes.submitCount ELSE submitCount
    /\ Rerenders(MayBeSame(op, cell))

\* A handler is called outside a batch, in a flushed state after the first effect
\* (before it, the first render of the call would start with that effect, which
\* writes no cell).  Its first setter call is made; the call keeps its closure,
\* what it is to write (writes, by the setters left), and the values it is to
\* validate (vals).  before: the cells when the call began (history).
Begins(op, name, flag, writes, setters, vals) ==
    /\ CanCall
    /\ ~initialRender
    /\ batch = 0
    /\ calls' = calls + 1
    /\ running' = << [op |-> op, name |-> name, flag |-> flag, closure |-> rendered,
                      before |-> Snapshot(errors, values, touched, isSubmitting, submitCount),
                      writes |-> writes, setters |-> Tail(setters), vals |-> vals] >>
    /\ last' = Step(op, name, FALSE, {}, {}, {}, "running")
    /\ UNCHANGED <<initialRender, options, dependencies, chains>>
    /\ SetterCall(op, Head(setters), writes)

resetFormUnbatched ==
    Begins("resetForm", "", FALSE, ResetFormState(options.initialValues), ResetFormSetters,
           EmptyObject)

resetValueUnbatched(f, shouldResetTouched) ==
    Begins("resetValue", f, shouldResetTouched,
           Snapshot(ResetValueErrors(f), ResetValueValues(f), ResetValueTouched(f),
                    isSubmitting, submitCount),
           ResetValueSetters(shouldResetTouched), EmptyObject)

handleSubmitUnbatched(validateThrows) ==
    /\ validateThrows \/ BagCardinality(chains) < MaxInFlight
    /\ Begins("handleSubmit", "", validateThrows,
              Snapshot(errors, values, SubmitTouched, TRUE, SubmitCountWritten),
              SubmitSetters, SubmitValues)

\* The running call returns after its last setter call.  handleSubmit calls
\* validate(values) with the values of its closure before it returns.
Returns(r) ==
    IF r.op = "handleSubmit"
    THEN IF r.flag
         THEN /\ UNCHANGED chains
              /\ last' = Step("handleSubmit", "", FALSE, {r.vals}, {}, {}, "threw")
         ELSE /\ chains' = Add(chains, SubmitChain(r.vals))
              /\ last' = Step("handleSubmit", "", FALSE, {r.vals}, {}, {}, "pending")
    ELSE /\ UNCHANGED chains
         /\ last' = Step(r.op, r.name, r.flag, {}, {}, {}, "none")

\* The running call makes its next setter call, once the activation that follows
\* the previous one has returned and an effect that the next setter call is to
\* run has run; after the last setter call, and the activation that follows it,
\* the call returns.
NextSetter ==
    /\ running # <<>>
    /\ LET r == running[1]
       IN  IF r.setters # <<>>
           THEN /\ pendingEffect \in {"none", "render"}
                /\ running' = << [r EXCEPT !.setters = Tail(r.setters)] >>
                /\ last' = Step(r.op, r.name, FALSE, {}, {}, {}, "running")
                /\ UNCHANGED <<calls, initialRender, options, dependencies, chains>>
                /\ SetterCall(r.op, Head(r.setters), r.writes)
           ELSE /\ pendingEffect # "due"
                /\ running' = <<>>
                /\ Returns(r)
                /\ UNCHANGED <<errors, values, touched, isSubmitting, submitCount, calls,
                               initialRender, options, dependencies, rendered, batch,
                               pendingEffect>>
                /\ activated' = "none"

(***************************************************************************)
(* The specification.                                                      *)
(***************************************************************************)
Next ==
    \/ MountEffect
    \/ \E newOptions \in NextOptions : Activate(newOptions)
    \/ \E inSetter \in BOOLEAN : RunEffect(inSetter)
    \/ resetForm
    \/ \E f \in ResetNames, shouldResetTouched \in BOOLEAN : resetValue(f, shouldResetTouched)
    \/ \E newErrors \in SetErrorsChoices : setErrors(newErrors)
    \/ \E name \in BlurNames, validateThrows \in BOOLEAN : handleBlur(name, validateThrows)
    \/ \E target \in ChangeTargets, validateThrows \in BOOLEAN : handleChange(target, validateThrows)
    \/ \E validateThrows \in BOOLEAN : handleSubmit(validateThrows)
    \/ resetFormUnbatched
    \/ \E f \in ResetNames, shouldResetTouched \in BOOLEAN :
         resetValueUnbatched(f, shouldResetTouched)
    \/ \E validateThrows \in BOOLEAN : handleSubmitUnbatched(validateThrows)
    \/ NextSetter
    \/ \E c \in BagToSet(chains), errs \in ValidateResults : validationResolves(c, errs)
    \/ \E c \in BagToSet(chains) : validationRejects(c)
    \/ \E c \in BagToSet(chains), errs \in ValidateResults, behaviour \in OnSubmitBehaviours :
         submitValidateResolves(c, errs, behaviour)
    \/ \E c \in BagToSet(chains) : submitSettles(c)
    \/ \E c \in BagToSet(chains) : submitValidateRejects(c)
    \/ \E c \in BagToSet(chains), fulfilled \in BOOLEAN : onSubmitSettles(c, fulfilled)

Spec == Init /\ [][Next]_vars

\* React runs every effect it has scheduled, and a handler call that is running
\* goes on to its return
FairSpec ==
    /\ Spec
    /\ WF_vars(\E inSetter \in BOOLEAN : RunEffect(inSetter))
    /\ WF_vars(NextSetter)

(***************************************************************************)
(* The specification of the value extraction: one change event on a fresh  *)
(* form, before or after its first effect, its target drawn from every     *)
(* input type and a set of value strings; and the activations and effects  *)
(* around it.                                                              *)
(***************************************************************************)
\* event.target.value: the strings listed with NumberCommits below
ValueStrings ==
    { <<>>, <<"5", "0">>, <<"2", "1">>, <<"1", ".", "5", "0">>, <<" ", "7">>,
      <<"\t", "7">>, <<"-", "3">>, <<"a", "b", "c">>, <<"4", "x">>, <<".", "5">>,
      <<"o", "n">>, <<"-">>, <<"1", "e", "3">>, <<"1", ".", "5", "e", "2">>,
      <<"2", "e", "-", "1">>, <<"1", "e">>,
      <<"-", "I", "n", "f", "i", "n", "i", "t", "y">>, <<"-", "0">>, <<"", "7">>,
      <<" ", "2", "1">>, <<"﻿", "5">>, <<" ", "7">>, <<"1", "e", "-", "4", "0", "0">>,
      <<"-", "1", "e", "-", "4", "0", "0">>, <<"1", "e", "4", "0", "0">>,
      <<"1", ".", "8", "e", "3", "0", "8">>, <<"+", "5">>,
      <<"I", "n", "f", "i", "n", "i", "t", "y">>, <<"0", "x", "1", "F">>,
      <<"1", "e", "2", "1">>, <<"3", "e", "-", "7">>, <<"0", ".", "1">>,
      <<"1", "2", "3", "4", "5", "6", "7", "8", "9", "0", "1">>,
      <<"9", "0", "0", "7", "1", "9", "9", "2", "5", "4", "7", "4", "0", "9", "9", "3">>,
      <<"3", "e", "-", "3", "2", "4">>, <<"2", "e", "-", "3", "2", "4">>,
      <<"1", "e", "1", "0", "0", "0", "0", "0", "1">>,
      <<"1", "e", "-", "9", "9", "9", "9", "9", "9", "9", "9", "9", "9", "9">>,
      <<"0", ".", "0", "0", "0", "1", "e", "0", "0", "0", "0", "0", "0", "0", "4">> }

\* event.target.type: types of HTML form controls
ValueTypes == {TextType, NumberType, RangeType, CheckboxType, RadioType, SelectOneType}

\* event.target of the change events of this specification
ValueTargets ==
    [name : {"age"}, type : ValueTypes, value : ValueStrings, checked : BOOLEAN]

ValueNext ==
    \/ MountEffect
    \/ \E newOptions \in NextOptions : Activate(newOptions)
    \/ \E inSetter \in BOOLEAN : RunEffect(inSetter)
    \/ \E target \in ValueTargets : calls < MaxValueCalls /\ handleChange(target, FALSE)

ValueSpec == Init /\ [][ValueNext]_vars

(***************************************************************************)
(* Properties.                                                             *)
(***************************************************************************)
SubmitSteps == {"handleSubmit", "submitValidateResolves", "submitSettles",
                "submitValidateRejects", "onSubmitSettles"}

\* the steps in which a submit attempt settles after validate resolved
SettleSteps == {"submitSettles", "onSubmitSettles"}

\* the submit attempts in flight
Attempts == {c \in BagToSet(chains) : c.kind = "submit"}

\* for the step that is about to act: the activation whose handler is (or was)
\* called, and the cells when that call began
Closure == IF running = <<>> THEN rendered ELSE running[1].closure

CellsBefore ==
    IF running = <<>> THEN Snapshot(errors, values, touched, isSubmitting, submitCount)
    ELSE running[1].before

\* a submit attempt is under way: its chain is in flight, or its handleSubmit call
\* is still running
AttemptUnderWay ==
    Attempts # {} \/ (running # <<>> /\ running[1].op = "handleSubmit")

\* the step that is about to act makes the setSubmitCount call of its handler: a
\* call in a batch makes all its setter calls in one step
SetsSubmitCount ==
    IF running = <<>> THEN running' = <<>>
    ELSE running[1].setters # <<>> /\ Head(running[1].setters) = "submitCount"

\* C1: when a submit attempt fails (validate throws or rejects, onSubmit throws or
\* rejects), isSubmitting is false afterwards and the failure reaches the caller as
\* a rejection of the promise handleSubmit returned.
C1_FailedSubmitResetsAndRejects ==
    (last.op \in SubmitSteps /\ last.outcome \in {"rejected", "threw"})
        => (~isSubmitting /\ last.outcome = "rejected")

\* C2: onSubmit is called only by the step in which the attempt's validate resolved
\* with a mapping without keys; when validate resolves with a mapping that has
\* keys, onSubmit is not called, the mapping is the new Errors and the attempt goes
\* on to settle, and isSubmitting is false once an attempt has settled.
C2_OnSubmitOnlyAfterValidationPasses ==
    /\ last.onSubmitArgs # {}
         => /\ last.op = "submitValidateResolves"
            /\ last.validateResult = {EmptyObject}
    /\ (last.op = "submitValidateResolves" /\ last.validateResult # {EmptyObject})
         => /\ last.onSubmitArgs = {}
            /\ last.validateResult = {errors}
            /\ \E c \in Attempts : c.stage = "then"
    /\ last.op \in SettleSteps => ~isSubmitting

\* a submit attempt stopped by validation errors has settled: onSubmit was not
\* called (no step but the resolution and the settling followed the call)
C2_Witness ==
    /\ last.op = "submitSettles"
    /\ last.outcome = "resolved"
    /\ errors = ("first" :> "invalid")
    /\ calls = 1
    /\ submitCount = 1
    /\ Attempts = {}
    /\ ~isSubmitting

\* C3: when the validate of a submit attempt resolves with the empty mapping,
\* onSubmit is called once for the attempt (the attempt leaves the validating
\* stage) with the current Values: the attempt carries the Values the cells hold
\* when handleSubmit is called.  The step that calls onSubmit leaves isSubmitting as
\* it is, a settled attempt leaves it false, and isSubmitting does not go from true
\* to false while the result of an onSubmit call has not settled.
C3_OnSubmitOnceWithValuesThenSettles ==
    [][ /\ (last'.op = "handleSubmit" /\ last'.outcome = "pending")
             => chains' = Add(chains, [kind |-> "submit", stage |-> "validate",
                                       vals |-> CellsBefore.values])
        /\ (last'.op = "submitValidateResolves" /\ last'.validateResult = {EmptyObject})
             => \E c \in Attempts :
                    /\ c.stage = "validate"
                    /\ last'.onSubmitArgs = {c.vals}
                    /\ \E stage \in {"then", "catch", "onSubmit"} :
                           chains' = Add(Remove(chains, c), [c EXCEPT !.stage = stage])
                    /\ isSubmitting' = isSubmitting
        /\ last'.op \in SettleSteps
             => (~isSubmitting' /\ \E c \in Attempts : c.stage # "validate" /\ chains' = Remove(chains, c))
        /\ (isSubmitting /\ ~isSubmitting') => \A c \in Attempts' : c.stage # "onSubmit"
      ]_vars

\* C4: isSubmitting is true exactly while a submit attempt is in flight (between
\* the start of a handleSubmit call and its resolution or rejection).
C4_IsSubmittingIffAttemptInFlight ==
    isSubmitting <=> AttemptUnderWay

\* C5: each handleSubmit call increases submitCount by exactly 1 (so that n calls
\* with no resetForm in between leave it at n).
C5_EachSubmitAddsOne ==
    [][ (last'.op = "handleSubmit" /\ SetsSubmitCount)
          => submitCount' = submitCount + 1 ]_vars

\* C6: after resetForm(), from any state, Values is the current initialValues,
\* Errors and Touched are {}, isSubmitting is false and submitCount is 0.
C6_ResetFormRestoresInitialState ==
    (last.op = "resetForm" /\ last.outcome # "running")
        => /\ values = options.initialValues
           /\ errors = EmptyObject
           /\ touched = EmptyObject
           /\ ~isSubmitting
           /\ submitCount = 0

\* resetForm called on a submitted, changed and touched form with an attempt in
\* flight (rendered still shows the state before the call)
C6_Witness ==
    /\ last.op = "resetForm"
    /\ batch = 1
    /\ rendered.submitCount = 1
    /\ rendered.isSubmitting
    /\ rendered.touched # EmptyObject
    /\ rendered.values # options.initialValues
    /\ Attempts # {}
    /\ values = options.initialValues

\* C7: resetValue(f, shouldResetTouched) sets Values[f] to initialValues[f], removes
\* f from Errors, removes f from Touched iff shouldResetTouched, and leaves the
\* entries of every other field, isSubmitting and submitCount unchanged.
C7_ResetValueTouchesOnlyItsField ==
    [][ (last'.op = "resetValue" /\ last'.outcome # "running")
          => LET f == last'.name
                 Same(before, after) ==
                     /\ Keys(after) \ {f} = Keys(before) \ {f}
                     /\ \A g \in Keys(before) \ {f} : after[g] = before[g]
             IN  /\ f \in Keys(values') /\ values'[f] = Get(options.initialValues, f)
                 /\ f \notin Keys(errors')
                 /\ f \in Keys(touched') <=> (f \in Keys(CellsBefore.touched) /\ ~last'.flag)
                 /\ Same(CellsBefore.values, values')
                 /\ Same(CellsBefore.errors, errors')
                 /\ Same(CellsBefore.touched, touched')
                 /\ isSubmitting' = CellsBefore.isSubmitting
                 /\ submitCount' = CellsBefore.submitCount
      ]_vars

\* C8: every activation after the first whose dependency list differs from the
\* previous one (a new initialValues object under options => [options.initialValues])
\* schedules the effect; a scheduled effect stays scheduled until it runs, and it
\* does run (React runs every effect it has scheduled); when it runs the form is
\* reset: Values is the initialValues of the new activation, Errors and Touched are
\* {}, isSubmitting is false and submitCount is 0, which is what the activation
\* that follows the effect returns.
C8_DependencyChangeResets ==
    /\ [][ /\ (activated' = "newObject" /\ dependencies = "initialValues")
                => pendingEffect' \in EffectPolicies
           /\ (pendingEffect # "none" /\ last'.op # "effect") => pendingEffect' # "none"
           /\ last'.op = "effect"
                => /\ last'.flag
                   /\ values' = options'.initialValues
                   /\ errors' = EmptyObject
                   /\ touched' = EmptyObject
                   /\ ~isSubmitting'
                   /\ submitCount' = 0
                   /\ (last'.name = "render"
                         => rendered' = Snapshot(errors', values', touched', isSubmitting',
                                                 submitCount'))
         ]_vars
    /\ \/ <>[](pendingEffect = "none")
       \/ []<><<\E inSetter \in BOOLEAN : RunEffect(inSetter)>>_vars

\* a used form reinitialized with other initialValues while an attempt is in flight
C8_Witness ==
    /\ last.op = "effect"
    /\ last.name = "render"
    /\ dependencies = "initialValues"
    /\ options.initialValues # FirstInitialValues
    /\ values = options.initialValues
    /\ rendered.values = options.initialValues
    /\ calls >= 2
    /\ Attempts # {}

\* C9: no automatic reset on the first activation, none caused by an activation
\* with the same dependency list (the same initialValues object), and none at all
\* without a dependency-extraction function, also when initialValues changes: the
\* effect is scheduled by no such activation, whether the parent causes it or a
\* setter call of the hook, and an activation writes no cell.  The resetting effect
\* runs only when an activation with a changed dependency scheduled it.
C9_NoResetWithoutDependencyChange ==
    [][ /\ last'.op = "mount" => (cells' = cells /\ ~last'.flag)
        /\ (last'.op \in {"useForm", "mount"} /\ activated' # "newObject")
             => pendingEffect' = "none"
        /\ last'.op = "activate" => cells' = cells
        /\ (activated' = "sameObject" \/ dependencies = "noDependencies")
             => pendingEffect' = "none"
        /\ last'.op = "effect" => (pendingEffect # "none" /\ dependencies = "initialValues")
        /\ pendingEffect' # "none"
             => \/ activated' = "newObject" /\ dependencies = "initialValues"
                \/ pendingEffect # "none" /\ last'.op # "effect"
      ]_vars

\* initialValues changed under noDependencies; the changed, touched form is kept
C9_Witness ==
    /\ last.op = "activate"
    /\ last.name = "newObject"
    /\ activated = "newObject"
    /\ dependencies = "noDependencies"
    /\ pendingEffect = "none"
    /\ options.initialValues["first"] = Str(Wendy)
    /\ values["first"] = Str(Joe)
    /\ touched # EmptyObject
    /\ submitCount = 1

\* C10: handleBlur on f calls validate iff validateOnBlur is enabled and every key
\* of initialValues is among the keys of Touched (the touched cell when the handler
\* is called) or is f; keys outside initialValues are not required.
C10_BlurValidatesIffAllInitialTouched ==
    [][ last'.op = "handleBlur"
          => ((last'.validateArgs # {})
                <=> /\ options.validateOnBlur
                    /\ \A k \in Keys(options.initialValues) :
                           k \in Keys(touched) \cup {last'.name})
      ]_vars

\* the change target of the model with the given name
TargetNamed(name) == CHOOSE target \in ChangeTargets : target.name = name

\* C11: handleChange calls validate iff validateOnChange is enabled and every key of
\* initialValues is among the keys of Touched (the touched cell at the time of the
\* change); the changed field itself is not counted as touched, and with
\* validateOnChange false no change calls validate.
C11_ChangeValidatesIffAllInitialTouched ==
    [][ last'.op = "handleChange"
          => ((last'.validateArgs # {})
                <=> /\ options.validateOnChange
                    /\ \A k \in Keys(options.initialValues) : k \in Keys(touched))
      ]_vars

\* C12: handleChange on f commits Values equal to the previous Values with only key
\* f overwritten by the normalized event value, every other key preserved (so that
\* after a sequence of changes each field holds the value of its latest change).
C12_ChangeOverwritesOnlyItsField ==
    [][ last'.op = "handleChange"
          => \A target \in last'.args :
                 values' = Assign(values, target.name, value(target))
      ]_vars

\* C13: handleBlur on f commits Touched equal to the previous Touched with f set to
\* true and every other entry preserved.
C13_BlurTouchesOnlyItsField ==
    [][ last'.op = "handleBlur" => touched' = Assign(touched, last'.name, TRUE) ]_vars

\* C14: once a handleSubmit call has returned, every key of the current Values (the
\* values cell when the handler is called) and every key of initialValues is in
\* Touched, set to true.
C14_SubmitTouchesEveryField ==
    [][ (last'.op = "handleSubmit" /\ last'.outcome # "running")
          => \A k \in Keys(CellsBefore.values) \cup Keys(options.initialValues) :
                 k \in Keys(touched') /\ touched'[k] = TRUE
      ]_vars

\* C15: setErrors(m) replaces Errors with m, whether or not a validation or a submit
\* attempt is in flight, and leaves Values, Touched, isSubmitting and submitCount
\* unchanged (and the chains in flight as they are).
C15_SetErrorsReplacesErrorsOnly ==
    [][ last'.op = "setErrors"
          => /\ last'.args = {errors'}
             /\ values' = values
             /\ touched' = touched
             /\ isSubmitting' = isSubmitting
             /\ submitCount' = submitCount
             /\ chains' = chains
      ]_vars

\* setErrors during a submit attempt, over errors of another field
C15_Witness ==
    /\ last.op = "setErrors"
    /\ last.args = {("age" :> "server")}
    /\ errors = ("age" :> "server")
    /\ rendered.errors = ("first" :> "invalid")
    /\ batch = 1
    /\ Attempts # {}
    /\ isSubmitting

\* C16: on the first activation, before any event, Values equals initialValues,
\* Errors is {}, Touched is {}, isSubmitting is false and submitCount is 0, and this
\* is what the activation returns.
C16_FirstActivationState ==
    (last.op \in {"useForm", "mount"} /\ calls = 0)
        => /\ values = options.initialValues
           /\ errors = EmptyObject
           /\ touched = EmptyObject
           /\ isSubmitting = FALSE
           /\ submitCount = 0
           /\ rendered = Snapshot(EmptyObject, options.initialValues, EmptyObject, FALSE, 0)

\* the first activation has run its effect and no handler was called yet
C16_Witness ==
    /\ last.op = "mount"
    /\ ~initialRender
    /\ calls = 0
    /\ values = FirstInitialValues

\* what a number or range input commits for each value string, written out: the
\* double nearest to the decimal the string starts with after white space, or the
\* empty string.
\* "": '', "50": 50, "21": 21, "1.50": 1.5, " 7": 7, "(a tab)7": 7, "-3": -3,
\* "abc": '', "4x": 4, ".5": 0.5, "on": '', "-": '', "1e3": 1000, "1.5e2": 150,
\* "2e-1": 0.2, "1e": 1, "-Infinity": -Infinity, "-0": -0, "(a line tabulation)7":
\* 7, "(a no-break space)21": 21, "(a byte order mark)5": 5, "(an ogham space
\* mark)7": 7, "1e-400": 0, "-1e-400": -0, "1e400": Infinity, "1.8e308": Infinity,
\* "+5": 5, "Infinity": Infinity, "0x1F": 0, "1e21": 1e+21, "3e-7": 3e-07, "0.1":
\* 0.1, "12345678901": 12345678901, "9007199254740993": 9007199254740992, "3e-324":
\* 5e-324, "2e-324": 0, "1e1000001": Infinity, "1e-99999999999": 0,
\* "0.0001e00000004": 1
NumberCommits ==
    {
      <<<<>>, Str(<<>>)>>,
      <<<<"5", "0">>, Double(FALSE, <<1, 1, 0, 0, 1>>, 1)>>,
      <<<<"2", "1">>, Double(FALSE, <<1, 0, 1, 0, 1>>, 0)>>,
      <<<<"1", ".", "5", "0">>, Double(FALSE, <<1, 1>>, -1)>>,
      <<<<" ", "7">>, Double(FALSE, <<1, 1, 1>>, 0)>>,
      <<<<"\t", "7">>, Double(FALSE, <<1, 1, 1>>, 0)>>,
      <<<<"-", "3">>, Double(TRUE, <<1, 1>>, 0)>>,
      <<<<"a", "b", "c">>, Str(<<>>)>>,
      <<<<"4", "x">>, Double(FALSE, <<1>>, 2)>>,
      <<<<".", "5">>, Double(FALSE, <<1>>, -1)>>,
      <<<<"o", "n">>, Str(<<>>)>>,
      <<<<"-">>, Str(<<>>)>>,
      <<<<"1", "e", "3">>, Double(FALSE, <<1, 1, 1, 1, 1, 0, 1>>, 3)>>,
      <<<<"1", ".", "5", "e", "2">>, Double(FALSE, <<1, 0, 0, 1, 0, 1, 1>>, 1)>>,
      <<<<"2", "e", "-", "1">>, Double(FALSE, <<1, 1, 0, 0, 1, 1, 0, 0, 1, 1, 0, 0, 1, 1, 0, 0, 1, 1, 0, 0, 1, 1, 0, 0, 1, 1, 0, 0, 1, 1, 0, 0, 1, 1, 0, 0, 1, 1, 0, 0, 1, 1, 0, 0, 1, 1, 0, 0, 1, 1, 0, 1>>, -54)>>,
      <<<<"1", "e">>, Double(FALSE, <<1>>, 0)>>,
      <<<<"-", "I", "n", "f", "i", "n", "i", "t", "y">>, Infinity(TRUE)>>,
      <<<<"-", "0">>, Zero(TRUE)>>,
      <<<<"", "7">>, Double(FALSE, <<1, 1, 1>>, 0)>>,
      <<<<" ", "2", "1">>, Double(FALSE, <<1, 0, 1, 0, 1>>, 0)>>,
      <<<<"﻿", "5">>, Double(FALSE, <<1, 0, 1>>, 0)>>,
      <<<<" ", "7">>, Double(FALSE, <<1, 1, 1>>, 0)>>,
      <<<<"1", "e", "-", "4", "0", "0">>, Zero(FALSE)>>,
      <<<<"-", "1", "e", "-", "4", "0", "0">>, Zero(TRUE)>>,
      <<<<"1", "e", "4", "0", "0">>, Infinity(FALSE)>>,
      <<<<"1", ".", "8", "e", "3", "0", "8">>, Infinity(FALSE)>>,
      <<<<"+", "5">>, Double(FALSE, <<1, 0, 1>>, 0)>>,
      <<<<"I", "n", "f", "i", "n", "i", "t", "y">>, Infinity(FALSE)>>,
      <<<<"0", "x", "1", "F">>, Zero(FALSE)>>,
      <<<<"1", "e", "2", "1">>, Double(FALSE, <<1, 1, 0, 1, 1, 0, 0, 0, 1, 1, 0, 1, 0, 1, 1, 1, 0, 0, 1, 0, 0, 1, 1, 0, 1, 0, 1, 1, 0, 1, 1, 1, 0, 0, 0, 1, 0, 1, 1, 1, 0, 1, 1, 1, 1, 0, 1, 0, 1>>, 21)>>,
      <<<<"3", "e", "-", "7">>, Double(FALSE, <<1, 0, 1, 0, 0, 0, 0, 1, 0, 0, 0, 0, 1, 1, 1, 1, 1, 0, 1, 0, 1, 1, 1, 1, 1, 0, 1, 0, 0, 0, 0, 0, 0, 1, 1, 0, 1, 1, 0, 0, 0, 0, 0, 1, 1, 0, 1, 1, 1, 0, 1, 1>>, -73)>>,
      <<<<"0", ".", "1">>, Double(FALSE, <<1, 1, 0, 0, 1, 1, 0, 0, 1, 1, 0, 0, 1, 1, 0, 0, 1, 1, 0, 0, 1, 1, 0, 0, 1, 1, 0, 0, 1, 1, 0, 0, 1, 1, 0, 0, 1, 1, 0, 0, 1, 1, 0, 0, 1, 1, 0, 0, 1, 1, 0, 1>>, -55)>>,
      <<<<"1", "2", "3", "4", "5", "6", "7", "8", "9", "0", "1">>, Double(FALSE, <<1, 0, 1, 1, 0, 1, 1, 1, 1, 1, 1, 1, 0, 1, 1, 1, 0, 0, 0, 0, 0, 1, 1, 1, 0, 0, 0, 0, 1, 1, 0, 1, 0, 1>>, 0)>>,
      <<<<"9", "0", "0", "7", "1", "9", "9", "2", "5", "4", "7", "4", "0", "9", "9", "3">>, Double(FALSE, <<1>>, 53)>>,
      <<<<"3", "e", "-", "3", "2", "4">>, Double(FALSE, <<1>>, -1074)>>,
      <<<<"2", "e", "-", "3", "2", "4">>, Zero(FALSE)>>,
      <<<<"1", "e", "1", "0", "0", "0", "0", "0", "1">>, Infinity(FALSE)>>,
      <<<<"1", "e", "-", "9", "9", "9", "9", "9", "9", "9", "9", "9", "9", "9">>, Zero(FALSE)>>,
      <<<<"0", ".", "0", "0", "0", "1", "e", "0", "0", "0", "0", "0", "0", "0", "4">>, Double(FALSE, <<1>>, 0)>>
    }

\* C17: the value handleChange commits for the field is the extraction of the event
\* target: for type number or range the parsed number, or the empty string when the
\* value does not parse (never NaN); for type checkbox the checked boolean, not the
\* value string; for any other type the value string verbatim.
C17_ChangeCommitsExtractedValue ==
    last.op = "handleChange"
        => \A target \in last.args :
               LET committed == values[target.name]
               IN  /\ committed # NaN
                   /\ target.type \in {NumberType, RangeType}
                        => \E commit \in NumberCommits :
                               commit[1] = target.value /\ committed = commit[2]
                   /\ target.type = CheckboxType => committed = Bool(target.checked)
                   /\ target.type \notin {NumberType, RangeType, CheckboxType}
                        => committed = Str(target.value)

\* "1.50" typed into a number input was committed as the number 1.5 = 3 * 2^-1,
\* over the initial 20 = 5 * 2^2
C17_Witness ==
    /\ last.op = "handleChange"
    /\ last.name = "age"
    /\ \E target \in last.args : target.type = NumberType /\ target.value = <<"1", ".", "5", "0">>
    /\ values["age"] = Double(FALSE, <<1, 1>>, 0 - 1)
    /\ rendered.values["age"] = Double(FALSE, <<1, 0, 1>>, 2)

\* C18: the validation handleChange triggers is given the newly computed Values:
\* the Values the handler saw with the changed key overwritten by the extracted
\* value, which are the Values the call commits, also while the activation still
\* shows the Values from before the change.
C18_ChangeValidatesNewValues ==
    [][ (last'.op = "handleChange" /\ last'.validateArgs # {})
          => /\ last'.validateArgs =
                    {Assign(rendered.values, last'.name, value(TargetNamed(last'.name)))}
             /\ last'.validateArgs = {values'}
      ]_vars

\* validate was called with first = "Joe" while the activation still shows "John"
C18_Witness ==
    /\ last.op = "handleChange"
    /\ last.name = "first"
    /\ batch = 1
    /\ \E arg \in last.validateArgs : arg["first"] = Str(Joe) /\ arg = values
    /\ rendered.values["first"] = Str(John)

\* C19: the validation handleBlur triggers is given the current Values, those that
\* include every handleChange committed before the blur, also a change dispatched
\* immediately before the blur with no activation in between.
C19_BlurValidatesCurrentValues ==
    [][ (last'.op = "handleBlur" /\ last'.validateArgs # {})
          => last'.validateArgs = {values}
      ]_vars

\* C20: handleSubmit and handleBlur never remove a field from Touched and never turn
\* a touched field back to untouched, whatever the touched fields (a blurred field
\* that is in neither Values nor initialValues included); stated for calls made
\* right after an activation, where the handler sees the latest Touched.
C20_TouchedGrowsUnderSubmitAndBlur ==
    [][ (last'.op \in {"handleSubmit", "handleBlur"} /\ last'.outcome # "running"
           /\ batch = 0)
          => \A k \in Keys(CellsBefore.touched) : k \in Keys(touched') /\ touched'[k] = TRUE
      ]_vars

\* the steps in which a validate call resolved
ResolutionSteps == {"validationResolves", "submitValidateResolves"}

\* the steps that reset Errors or one of its entries
ResetSteps == {"resetForm", "resetValue", "effect"}

\* C21: every validation resolution (of a validation started by handleChange or
\* handleBlur, or of a submit attempt) replaces Errors with the mapping validate
\* resolved with, never merged with the previous Errors: after a resolution with {}
\* Errors is {}, whatever it held before (errors set through setErrors included);
\* the activation that follows returns it, unless it starts with the effect of a
\* reinitialization.
C21_ResolutionReplacesErrors ==
    last.op \in ResolutionSteps
        => /\ last.validateResult = {errors}
           /\ pendingEffect # "due" => rendered.errors = errors

\* a validation started by a blur resolved with {} over the errors that setErrors
\* had set: Errors is {}, while the latest activation, which returned the errors
\* set, is still the one shown (the next one starts with a pending effect)
C21_Witness ==
    /\ last.op = "validationResolves"
    /\ last.validateResult = {EmptyObject}
    /\ errors = EmptyObject
    /\ rendered.errors = ("age" :> "server")
    /\ pendingEffect = "due"
    /\ batch = 0

\* C22: Errors is what the latest commit wrote: a validation resolution commits its
\* result and setErrors its argument, whichever comes last wins, and a resolution
\* commits also while other validations (started before or after it) are still in
\* flight; besides these only the resets write Errors.
C22_ErrorsLastWriterWins ==
    [][ /\ last'.op \in ResolutionSteps => last'.validateResult = {errors'}
        /\ last'.op = "setErrors" => errors' \in SetErrorsChoices
        /\ errors' # errors => last'.op \in ResolutionSteps \cup {"setErrors"} \cup ResetSteps
      ]_vars

\* a validation resolved with an error and committed it while another chain is
\* still in flight
C22_Witness ==
    /\ last.op = "validationResolves"
    /\ last.validateResult = {("first" :> "invalid")}
    /\ errors = ("first" :> "invalid")
    /\ BagCardinality(chains) >= 1

\* C23: Values holds every key of the current initialValues and every key a
\* handleChange introduced since the last reset: a change adds its field, and no
\* step but a reset of the form (resetForm, reinitialization) removes a key,
\* whatever changes, blurs, submits, resetValue calls and activations occur.
C23_ValuesKeepTheirKeys ==
    [][ /\ Keys(options'.initialValues) \subseteq Keys(values')
        /\ last'.op = "handleChange" => last'.name \in Keys(values')
        /\ last'.op \notin {"resetForm", "effect"}
             => Keys(values) \subseteq Keys(values')
      ]_vars

\* C24: submit attempts are neither serialized nor rejected: every handleSubmit
\* call, also one made while isSubmitting is true, calls validate and (unless
\* validate throws) leaves one more attempt in flight; each attempt whose validation
\* passes calls onSubmit, also while another attempt is in flight.
C24_SubmitsOverlap ==
    [][ /\ (last'.op = "handleSubmit" /\ last'.outcome # "running")
             => /\ last'.validateArgs # {}
                /\ last'.outcome \in {"pending", "threw"}
                /\ last'.outcome = "pending"
                     => \E c \in Attempts' :
                            /\ c.stage = "validate"
                            /\ chains' = Add(chains, c)
        /\ (last'.op = "submitValidateResolves" /\ last'.validateResult = {EmptyObject})
             => last'.onSubmitArgs # {}
      ]_vars

\* the validation of a second attempt passed and onSubmit was called again, while
\* the onSubmit of an overlapping attempt is still pending
C24_Witness ==
    /\ last.op = "submitValidateResolves"
    /\ last.onSubmitArgs # {}
    /\ \E c \in Attempts : c.stage = "onSubmit" /\ CopiesIn(c, chains) = 2
    /\ submitCount = 2

\* C25: a submit attempt in flight cannot be aborted: handleChange, handleBlur,
\* setErrors, resetValue and resetForm leave every attempt in flight as it is, and
\* once no batch is open the continuation of every attempt can run (commit the
\* validation result, call onSubmit, set isSubmitting false when it settles).
C25_AttemptsCannotBeAborted ==
    [][ /\ last'.op \in {"handleChange", "handleBlur", "setErrors", "resetValue", "resetForm"}
             => \A c \in Attempts : CopiesIn(c, chains') = CopiesIn(c, chains)
        /\ \A c \in Attempts :
             Flushed
               => CASE c.stage = "validate"
                         -> /\ ENABLED submitValidateResolves(c, EmptyObject, "returns")
                            /\ ENABLED submitValidateResolves(c, ("first" :> "invalid"), "returns")
                    [] c.stage \in {"then", "catch"} -> ENABLED submitSettles(c)
                    [] c.stage = "onSubmit" -> ENABLED onSubmitSettles(c, TRUE)
      ]_vars

\* an attempt on changed values went through a resetForm (submitCount is 0 again,
\* no dependency function) and still committed its result and called onSubmit with
\* its values; it is about to settle
C25_Witness ==
    /\ last.op = "submitValidateResolves"
    /\ last.onSubmitArgs # {}
    /\ last.onSubmitArgs # {values}
    /\ \E c \in Attempts : c.stage = "then" /\ last.onSubmitArgs = {c.vals}
    /\ dependencies = "noDependencies"
    /\ submitCount = 0
    /\ values = options.initialValues
    /\ errors = EmptyObject

\* C26: the failure path of a submit attempt writes isSubmitting only.  When
\* validate rejects, onSubmit throws or the promise of onSubmit rejects, Errors,
\* Values and Touched are as before the catch ran (after onSubmit failed, Errors is
\* what the passed validation committed, unless written since); when validate throws
\* inside handleSubmit, Errors and Values are as before the call and Touched is what
\* the call had committed before it called validate: every key of the values of its
\* closure and of initialValues is true when setTouched returns, and the throw
\* itself, a step of its own when the call is made outside a batch, writes no cell.
\* submitCount is not written.
C26_FailureWritesIsSubmittingOnly ==
    [][ /\ (last'.op \in SubmitSteps /\ last'.outcome \in {"rejected", "threw"})
             => /\ values' = values
                /\ last'.op \in {"submitValidateRejects", "submitSettles", "onSubmitSettles"}
                     => (errors' = errors /\ touched' = touched /\ submitCount' = submitCount)
                /\ last'.op = "handleSubmit"
                     => /\ errors' = errors
                        /\ IF running = <<>>
                           THEN touched' = [k \in Keys(Closure.values)
                                                    \cup Keys(options.initialValues) |-> TRUE]
                           ELSE cells' = cells
        /\ (last'.op = "handleSubmit" /\ last'.outcome = "running" /\ running # <<>>)
             => (Head(running[1].setters) = "touched"
                   => touched' = [k \in Keys(running[1].closure.values)
                                          \cup Keys(options.initialValues) |-> TRUE])
        /\ (last'.op = "submitValidateResolves" /\ last'.onSubmitArgs # {})
             => (errors' = EmptyObject /\ values' = values /\ touched' = touched
                   /\ isSubmitting' = isSubmitting /\ submitCount' = submitCount)
      ]_vars

\* validate rejected on a changed form that holds errors: errors, values and
\* touched are kept, isSubmitting is false
C26_Witness ==
    /\ last.op = "submitValidateRejects"
    /\ errors # EmptyObject
    /\ values # options.initialValues
    /\ Keys(touched) = Keys(values)
    /\ submitCount = 1
    /\ ~isSubmitting

\* C27: every submit attempt returns the controller to Idle once it has settled,
\* whichever branch it took (validation errors, successful onSubmit, failure):
\* when no attempt is in flight any more, isSubmitting is false (and, no further
\* handleSubmit being started, nothing sets it to true again).
C27_SettledAttemptsLeaveIdle ==
    /\ ~AttemptUnderWay => isSubmitting = FALSE
    /\ (last.op \in SubmitSteps /\ last.outcome \in {"resolved", "rejected", "threw"}
          /\ Attempts = {} /\ pendingEffect # "due")
         => rendered.isSubmitting = FALSE

\* C28: within one submit attempt onSubmit receives exactly the Values that were
\* passed to the attempt's validate call: the attempt carries them from the call,
\* and hands them to onSubmit whatever Values are committed in between (by
\* handleChange, resetValue or resetForm).
C28_OnSubmitGetsValidatedValues ==
    [][ /\ (last'.op = "handleSubmit" /\ last'.outcome = "pending")
             => \E c \in Attempts' :
                    /\ chains' = Add(chains, c)
                    /\ last'.validateArgs = {c.vals}
        /\ last'.onSubmitArgs # {}
             => \E c \in Attempts :
                    /\ c.stage = "validate"
                    /\ last'.onSubmitArgs = {c.vals}
                    /\ CopiesIn(c, chains') = CopiesIn(c, chains) - 1
        /\ \A c \in Attempts' :
               \/ c \in Attempts
               \/ \E b \in Attempts : b.stage = "validate" /\ c = [b EXCEPT !.stage = c.stage]
               \/ last'.op = "handleSubmit"
      ]_vars

\* onSubmit was called with the values validated (first = "Joe") after a resetForm
\* had put Values back to the initialValues
C28_Witness ==
    /\ last.op = "submitValidateResolves"
    /\ \E v \in last.onSubmitArgs : v["first"] = Str(Joe)
    /\ values = options.initialValues
    /\ values["first"] # Str(Joe)
    /\ submitCount = 0

\* C29: handleChange never modifies Touched, handleBlur never modifies Values, and
\* neither of them nor a validation they started modifies isSubmitting or
\* submitCount; submitCount changes only through handleSubmit, by +1, and through
\* resetForm or a reinitialization, to 0.
C29_ChangeAndBlurFrames ==
    [][ /\ last'.op = "handleChange"
             => (touched' = touched /\ isSubmitting' = isSubmitting /\ submitCount' = submitCount)
        /\ last'.op = "handleBlur"
             => (values' = values /\ isSubmitting' = isSubmitting /\ submitCount' = submitCount)
        /\ last'.op \in {"validationResolves", "validationRejects"}
             => (values' = values /\ touched' = touched /\ isSubmitting' = isSubmitting
                   /\ submitCount' = submitCount)
        /\ submitCount' # submitCount
             => \/ last'.op = "handleSubmit" /\ submitCount' = submitCount + 1
                \/ last'.op \in {"resetForm", "effect"} /\ submitCount' = 0
      ]_vars

====
